---------------------------- MODULE Spec2Model ----------------------------
(***************************************************************************)
(* A model of backend/app.py: the documentation crawler (DocumentScraper,  *)
(* DocumentProcessor), the result formatter and the Flask handlers that    *)
(* drive the search engine (initialize_single_index, query).               *)
(*                                                                         *)
(* Python str values are TLA+ strings; the string methods the code uses    *)
(* (strip, lower, startswith, split, join, slicing, the in operator) are   *)
(* operators over them, computed character by character.                   *)
(***************************************************************************)
EXTENDS Integers, Sequences, FiniteSets, TLC

VARIABLES
    \* ---- DocumentScraper.scrape_docs: one crawl job
    pc,             \* where scrape_docs stands
    base_url,       \* its argument
    anchors,        \* hrefs of soup.select("nav a, .docs a, ...") on the seed page
    doc_links,      \* the local set doc_links
    todo,           \* the elements of doc_links the for loop has not reached
    processed_urls, \* the local set processed_urls
    docs,           \* the local list docs
    retval,         \* what scrape_docs returned
    \* ---- DocumentScraper.get_page_content: the call in progress
    f_caller,       \* "seed" (line 137) or "link" (line 163)
    f_url,          \* its argument
    attempt,        \* the loop variable of range(max_retries)
    f_ret,          \* its return value
    \* ---- history of the crawl job (what happened, never read by the code)
    f_log,          \* outcome of every requests.get of the call in progress
    f_sleeps,       \* retry sleeps of the call in progress
    f_escaped,      \* an exception left get_page_content
    link_src,       \* <<href, url>>: url entered doc_links because of anchor href
    dup_anchor,     \* two accepted anchors resolved to the same url
    served,         \* per link handled: what its fetch returned, whether processing raised
    events,         \* page fetches of links and politeness delays, in order
    \* ---- one call of DocumentScraper.extract_content
    x_pc,           \* "idle", "call" or "done"
    x_soup,         \* its argument soup
    x_doc,          \* its return value
    \* ---- one call of format_search_response
    fm_pc,          \* "idle", "call" or "done"
    fm_hit,         \* its argument hit
    fm_query,       \* its argument query
    fm_out,         \* its return value
    \* ---- the search engine behind the global client es
    es_exists,      \* index name -> the index exists
    es_docs,        \* index name -> its documents, the one of id i at place i + 1
    \* ---- the request POST /initialize/<cdp> in progress
    i_pc,           \* where initialize_single_index stands
    i_cdp,          \* the path parameter cdp
    i_docs,         \* the local docs, the result of scrape_docs
    i_i,            \* the loop variable i of index_documents
    i_resp,         \* the response of the last request
    i_prev,         \* history: how many documents the index held when the request arrived
    \* ---- the request POST /query in progress
    q_pc,           \* where query stands
    q_query,        \* the "query" of the request body, as sent
    q_cdp,          \* the "cdp" of the request body, as sent
    q_resp,         \* the response of the last request
    \* ---- history of the query request
    q_es_calls,     \* calls of the search engine it has made
    q_seen,         \* the documents of the index when its search ran
    q_new           \* the documents an initialize request was indexing at that time

crawl_vars == <<pc, base_url, anchors, doc_links, todo, processed_urls, docs, retval,
                f_caller, f_url, attempt, f_ret, f_log, f_sleeps, f_escaped,
                link_src, dup_anchor, served, events>>

extract_vars == <<x_pc, x_soup, x_doc>>

format_vars == <<fm_pc, fm_hit, fm_query, fm_out>>

service_vars == <<es_exists, es_docs, i_pc, i_cdp, i_docs, i_i, i_resp, i_prev,
                  q_pc, q_query, q_cdp, q_resp, q_es_calls, q_seen, q_new>>

vars == <<crawl_vars, extract_vars, format_vars, service_vars>>

\* a step of one part of the program leaves the other parts alone
CrawlOnly == UNCHANGED <<extract_vars, format_vars, service_vars>>
ExtractOnly == UNCHANGED <<crawl_vars, format_vars, service_vars>>
FormatOnly == UNCHANGED <<crawl_vars, extract_vars, service_vars>>
ServiceOnly == UNCHANGED <<crawl_vars, extract_vars, format_vars>>

-----------------------------------------------------------------------------
(* Python values *)

\* Optional[bytes], the result of get_page_content: None, or response.content
\* (b"" for an empty body, else markup that BeautifulSoup parses into `soup`)
None == [kind |-> "None"]
EmptyBytes == [kind |-> "bytes", empty |-> TRUE]
Html(soup) == [kind |-> "bytes", empty |-> FALSE, soup |-> soup]

\* `if content:` / `if not content:` on such a value
Truthy(v) == v.kind # "None" /\ ~v.empty

-----------------------------------------------------------------------------
(* str methods *)

Char(s, i) == SubSeq(s, i, i)

\* str.startswith(prefix)
StartsWith(s, p) == Len(s) >= Len(p) /\ SubSeq(s, 1, Len(p)) = p

\* str.startswith(tuple)
StartsWithAny(s, ps) == \E i \in 1..Len(ps) : StartsWith(s, ps[i])

\* sub in s
Contains(sub, s) ==
    \E i \in 1..(Len(s) - Len(sub) + 1) : SubSeq(s, i, i + Len(sub) - 1) = sub

\* the characters str.split() and str.strip() treat as whitespace
IsSpace(c) == c \in {" ", "\n", "\r", "\t"}

RECURSIVE LStripSet(_, _)
LStripSet(s, cs) ==
    IF s # "" /\ Head(s) \in cs THEN LStripSet(Tail(s), cs) ELSE s

RECURSIVE RStripSet(_, _)
RStripSet(s, cs) ==
    IF s # "" /\ Char(s, Len(s)) \in cs
    THEN RStripSet(SubSeq(s, 1, Len(s) - 1), cs)
    ELSE s

Whitespace == {" ", "\n", "\r", "\t"}

\* str.strip()
Strip(s) == RStripSet(LStripSet(s, Whitespace), Whitespace)
\* str.lstrip(chars), str.rstrip(chars)
LStripChars(s, cs) == LStripSet(s, cs)
RStripChars(s, cs) == RStripSet(s, cs)

UpperAlphabet == "ABCDEFGHIJKLMNOPQRSTUVWXYZ"
LowerAlphabet == "abcdefghijklmnopqrstuvwxyz"

ToLower == [c \in {Char(UpperAlphabet, i) : i \in 1..26} |->
               Char(LowerAlphabet, CHOOSE i \in 1..26 : Char(UpperAlphabet, i) = c)]

LowerChar(c) == IF c \in DOMAIN ToLower THEN ToLower[c] ELSE c

\* str.lower()
RECURSIVE Lower(_)
Lower(s) == IF s = "" THEN "" ELSE LowerChar(Head(s)) \o Lower(Tail(s))

\* sep.join(list)
RECURSIVE Join(_, _)
Join(sep, ss) ==
    IF ss = <<>> THEN ""
    ELSE IF Len(ss) = 1 THEN ss[1]
    ELSE ss[1] \o sep \o Join(sep, Tail(ss))

\* str.split(sep) for a one-character sep: every piece, empty ones included
RECURSIVE SplitOn(_, _)
SplitOn(s, sep) ==
    IF \E i \in 1..Len(s) : Char(s, i) = sep
    THEN LET i == CHOOSE k \in 1..Len(s) :
                      Char(s, k) = sep /\ \A j \in 1..(k - 1) : Char(s, j) # sep
         IN <<SubSeq(s, 1, i - 1)>> \o SplitOn(SubSeq(s, i + 1, Len(s)), sep)
    ELSE <<s>>

\* str.split(): the maximal runs of non-whitespace, in order
RECURSIVE SplitWs(_)
SplitWs(s) ==
    LET t == LStripSet(s, Whitespace) IN
    IF t = "" THEN <<>>
    ELSE IF \E i \in 1..Len(t) : IsSpace(Char(t, i))
    THEN LET i == CHOOSE k \in 1..Len(t) :
                      IsSpace(Char(t, k)) /\ \A j \in 1..(k - 1) : ~IsSpace(Char(t, j))
         IN <<SubSeq(t, 1, i - 1)>> \o SplitWs(SubSeq(t, i, Len(t)))
    ELSE <<t>>

\* s.replace(old, new) for a one-character old
RECURSIVE ReplaceChar(_, _, _)
ReplaceChar(s, old, new) ==
    IF s = "" THEN ""
    ELSE (IF Head(s) = old THEN new ELSE Head(s)) \o ReplaceChar(Tail(s), old, new)

-----------------------------------------------------------------------------
(* The parsed page.  BeautifulSoup is an external collaborator: a soup is     *)
(* given by what the code's queries on it return.                             *)

\* the result of soup.find(...): no element, or an element with its get_text()
NoElem == [present |-> FALSE]
Elem(text) == [present |-> TRUE, text |-> text]

\* an <a> element and what element.get("href") returns for it
NoHref == [has_href |-> FALSE, href |-> ""]
Href(h) == [has_href |-> TRUE, href |-> h]

\* h1, title, page_title: soup.find("h1"), soup.find("title"),
\*     soup.find(class_="page-title")
\* headers: get_text() of main_content.find_all(["h1", "h2", "h3"]), in order
\* elems:   get_text() of main_content.find_all(["p", "li", "code"]), in order
\* links:   soup.select("nav a, .docs a, .documentation a, sidebar a, main a")
Soup(h1, title, page_title, headers, elems, links) ==
    [h1 |-> h1, title |-> title, page_title |-> page_title,
     headers |-> headers, elems |-> elems, links |-> links]

-----------------------------------------------------------------------------
(* DocumentProcessor *)

clean_text(text) ==
    IF text = "" THEN ""
    ELSE ReplaceChar(ReplaceChar(Join(" ", SplitWs(text)), "\n", " "), "\r", " ")

StepPrefixes == <<"step ", "1.", "2.", "3.">>

\* the test of line 49 on an already stripped line
IsStepLine(line) == StartsWithAny(Lower(line), StepPrefixes) /\ Len(line) > 5

RECURSIVE KeepSteps(_)
KeepSteps(lines) ==
    IF lines = <<>> THEN <<>>
    ELSE LET line == Strip(Head(lines)) IN
         (IF IsStepLine(line) THEN <<line>> ELSE <<>>) \o KeepSteps(Tail(lines))

extract_steps(content) == KeepSteps(SplitOn(content, "\n"))

-----------------------------------------------------------------------------
(* DocumentScraper.extract_content *)

\* lines 80-88: the first candidate that is present ends the loop
RECURSIVE FirstTitle(_)
FirstTitle(cands) ==
    IF cands = <<>> THEN ""
    ELSE IF Head(cands).present THEN Strip(Head(cands).text)
    ELSE FirstTitle(Tail(cands))

\* lines 110-113: the stripped, non-empty element texts
RECURSIVE CollectTexts(_)
CollectTexts(elems) ==
    IF elems = <<>> THEN <<>>
    ELSE LET text == Strip(Head(elems)) IN
         (IF text # "" THEN <<text>> ELSE <<>>) \o CollectTexts(Tail(elems))

extract_content(soup, url) ==
    LET title == FirstTitle(<<soup.h1, soup.title, soup.page_title>>)
        headers == [i \in 1..Len(soup.headers) |-> Strip(soup.headers[i])]
        content == CollectTexts(soup.elems)
        full_content == Join(" ", content)
        clean_content == clean_text(full_content)
        steps == extract_steps(clean_content)
    IN [url |-> url,
        title |-> IF title # "" THEN title ELSE "Untitled Document",
        content |-> clean_content,
        headers |-> headers,
        steps |-> steps,
        type |-> IF steps # <<>> THEN "guide" ELSE "documentation"]

-----------------------------------------------------------------------------
(* Inputs of a crawl job *)

max_retries == 3

\* the most anchors the selector matches on a seed page
MaxAnchors == 3

SeqUpTo(S, n) == UNION {[1..k -> S] : k \in 0..n}

\* two of the seeds of docs_urls: one ends in "/", one does not
BaseUrls == {"https://segment.com/docs/", "https://docs.lytics.com"}

SeedAnchors ==
    {NoHref, Href("#top"), Href("javascript:void(0)"), Href("mailto:docs@x.io"),
     Href("tel:123"), Href("/"), Href("guide"), Href("/guide"),
     Href("https://segment.com/docs/api"), Href("https://docs.lytics.com/api")}

SeedSoups ==
    {Soup(Elem("Docs"), NoElem, NoElem, <<>>, <<>>, a) : a \in SeqUpTo(SeedAnchors, MaxAnchors)}

\* the pages a link may serve: one without text, one with
LinkSoups ==
    {Soup(NoElem, Elem("Blank"), NoElem, <<>>, <<"  ">>, <<>>),
     Soup(Elem("Setup"), NoElem, NoElem, <<"Setup">>, <<"Step 1: add a source", "then send data">>, <<>>)}

\* what a successful GET of the seed / of a link may carry
Bodies(caller) ==
    {EmptyBytes} \cup {Html(sp) : sp \in IF caller = "seed" THEN SeedSoups ELSE LinkSoups}

-----------------------------------------------------------------------------
(* DocumentScraper.scrape_docs, lines 143-154: link discovery *)

\* a skip list that forgets the telephone scheme
SkippedSchemes_NoTel == <<"#", "javascript:", "mailto:">>

SkippedSchemes == <<"#", "javascript:", "mailto:", "tel:">>

\* line 148: the anchor is considered at all
Considered(a) == a.has_href /\ a.href # "" /\ ~StartsWithAny(a.href, SkippedSchemes)

\* lines 151-152
Resolve(href, base) ==
    IF ~StartsWith(href, "http")
    THEN RStripChars(base, {"/"}) \o "/" \o LStripChars(href, {"/"})
    ELSE href

\* line 153
InDomain(url, base) == StartsWith(url, base)

\* the anchors whose resolved url is added to doc_links
Accepted(links, base) ==
    {i \in 1..Len(links) : Considered(links[i]) /\ InDomain(Resolve(links[i].href, base), base)}

DiscoverLinks(links, base) ==
    {Resolve(links[i].href, base) : i \in Accepted(links, base)}

-----------------------------------------------------------------------------
(* DocumentScraper.get_page_content *)

\* the call get_page_content(url), from the seed fetch or from the link loop
Call(caller, url) ==
    /\ f_caller' = caller
    /\ f_url' = url
    /\ attempt' = 0
    /\ f_ret' = None
    /\ f_log' = <<>>
    /\ f_sleeps' = 0
    /\ pc' = "fetch"

\* a retry loop that runs once too often
MoreAttempts_OffByOne == attempt <= max_retries

\* line 66: range(max_retries) still yields an attempt
MoreAttempts == attempt < max_retries

\* the frame of get_page_content is gone once the caller has taken its result
Popped ==
    /\ attempt' = 0
    /\ f_ret' = None
    /\ f_log' = <<>>
    /\ f_sleeps' = 0

\* lines 68-70: the GET succeeds with a success status; its body is returned
GetOk ==
    /\ CrawlOnly
    /\ pc = "fetch"
    /\ MoreAttempts
    /\ \E body \in Bodies(f_caller) :
          /\ f_ret' = body
          /\ f_log' = Append(f_log, "ok")
    /\ pc' = "returned"
    /\ UNCHANGED <<base_url, anchors, doc_links, todo, processed_urls, docs, retval,
                   f_caller, f_url, attempt, f_sleeps, f_escaped,
                   link_src, dup_anchor, served, events>>

\* lines 71-74: requests.get raises (a transport error) or raise_for_status raises
\* (a non-success status); `except Exception` treats the two alike
GetFails ==
    /\ CrawlOnly
    /\ pc = "fetch"
    /\ MoreAttempts
    /\ f_log' = Append(f_log, "error")
    /\ f_sleeps' = IF attempt + 1 < max_retries THEN f_sleeps + 1 ELSE f_sleeps
    /\ attempt' = attempt + 1
    /\ UNCHANGED <<pc, base_url, anchors, doc_links, todo, processed_urls, docs, retval,
                   f_caller, f_url, f_ret, f_escaped,
                   link_src, dup_anchor, served, events>>

\* line 75: range(max_retries) is exhausted
GiveUp ==
    /\ CrawlOnly
    /\ pc = "fetch"
    /\ ~MoreAttempts
    /\ f_ret' = None
    /\ pc' = "returned"
    /\ UNCHANGED <<base_url, anchors, doc_links, todo, processed_urls, docs, retval,
                   f_caller, f_url, attempt, f_log, f_sleeps, f_escaped,
                   link_src, dup_anchor, served, events>>

-----------------------------------------------------------------------------
(* DocumentScraper.scrape_docs *)

\* lines 131-137
StartCrawl ==
    /\ CrawlOnly
    /\ pc = "start"
    /\ Call("seed", base_url)
    /\ UNCHANGED <<base_url, anchors, doc_links, todo, processed_urls, docs, retval,
                   f_escaped, link_src, dup_anchor, served, events>>

\* lines 138-139: the seed gave nothing
SeedEmpty ==
    /\ CrawlOnly
    /\ pc = "returned" /\ f_caller = "seed"
    /\ ~Truthy(f_ret)
    /\ retval' = docs
    /\ pc' = "done"
    /\ Popped
    /\ UNCHANGED <<base_url, anchors, doc_links, todo, processed_urls, docs,
                   f_caller, f_url, f_escaped, link_src, dup_anchor, served, events>>

\* lines 141-154: parse the seed and collect its in-domain links
SeedParsed ==
    /\ CrawlOnly
    /\ pc = "returned" /\ f_caller = "seed"
    /\ Truthy(f_ret)
    /\ LET links == f_ret.soup.links
           acc == Accepted(links, base_url)
       IN /\ anchors' = links
          /\ doc_links' = DiscoverLinks(links, base_url)
          /\ link_src' = {<<links[i].href, Resolve(links[i].href, base_url)>> : i \in acc}
          /\ dup_anchor' = (Cardinality(acc) > Cardinality(DiscoverLinks(links, base_url)))
    /\ pc' = "discovered"
    /\ Popped
    /\ UNCHANGED <<base_url, todo, processed_urls, docs, retval,
                   f_caller, f_url, f_escaped, served, events>>

\* lines 180-182: parsing or link discovery raised; the job returns []
SeedRaises ==
    /\ CrawlOnly
    /\ pc = "returned" /\ f_caller = "seed"
    /\ Truthy(f_ret)
    /\ retval' = <<>>
    /\ pc' = "done"
    /\ Popped
    /\ UNCHANGED <<base_url, anchors, doc_links, todo, processed_urls, docs,
                   f_caller, f_url, f_escaped, link_src, dup_anchor, served, events>>

\* line 156: the for loop starts over doc_links; soup is not read again
EnterLoop ==
    /\ CrawlOnly
    /\ pc = "discovered"
    /\ todo' = doc_links
    /\ anchors' = <<>>
    /\ link_src' = {}
    /\ pc' = "loop"
    /\ UNCHANGED <<base_url, doc_links, processed_urls, docs, retval,
                   f_caller, f_url, attempt, f_ret, f_log, f_sleeps, f_escaped,
                   dup_anchor, served, events>>

\* a loop over the anchors' urls as found, with no set and no visited check
NextLink_NoDedup ==
    /\ CrawlOnly
    /\ pc = "loop"
    /\ \E href \in doc_links :
          /\ todo' = todo \ {href}
          /\ processed_urls' = processed_urls \cup {href}
          /\ Call("link", href)
          /\ events' = Append(events, [e |-> "fetch", url |-> href])
    /\ UNCHANGED <<base_url, anchors, doc_links, docs, retval, f_escaped,
                   link_src, dup_anchor, served>>

\* lines 156-163: the next element of the set, in whatever order the set yields
NextLink ==
    /\ CrawlOnly
    /\ pc = "loop"
    /\ \E href \in todo :
          /\ todo' = todo \ {href}
          /\ IF href \in processed_urls
             THEN UNCHANGED <<pc, processed_urls, f_caller, f_url, attempt, f_ret,
                              f_log, f_sleeps, events>>
             ELSE /\ processed_urls' = processed_urls \cup {href}
                  /\ Call("link", href)
                  /\ events' = Append(events, [e |-> "fetch", url |-> href])
    /\ UNCHANGED <<base_url, anchors, doc_links, docs, retval, f_escaped,
                   link_src, dup_anchor, served>>

\* a loop body that appends whatever was extracted, empty or not
LinkProcessed_NoContentCheck ==
    /\ CrawlOnly
    /\ pc = "returned" /\ f_caller = "link"
    /\ IF Truthy(f_ret)
       THEN docs' = Append(docs, extract_content(f_ret.soup, f_url))
       ELSE docs' = docs
    /\ events' = Append(events, [e |-> "delay"])
    /\ served' = served \cup {[url |-> f_url, ret |-> f_ret, raised |-> FALSE]}
    /\ pc' = "loop"
    /\ Popped
    /\ UNCHANGED <<base_url, anchors, doc_links, todo, processed_urls, retval,
                   f_caller, f_url, f_escaped, link_src, dup_anchor>>

\* lines 164-172: the page is processed without an exception
LinkProcessed ==
    /\ CrawlOnly
    /\ pc = "returned" /\ f_caller = "link"
    /\ IF Truthy(f_ret)
       THEN LET doc_content == extract_content(f_ret.soup, f_url) IN
            docs' = IF doc_content.content # "" THEN Append(docs, doc_content) ELSE docs
       ELSE docs' = docs
    /\ events' = Append(events, [e |-> "delay"])
    /\ served' = served \cup {[url |-> f_url, ret |-> f_ret, raised |-> FALSE]}
    /\ pc' = "loop"
    /\ Popped
    /\ UNCHANGED <<base_url, anchors, doc_links, todo, processed_urls, retval,
                   f_caller, f_url, f_escaped, link_src, dup_anchor>>

\* lines 165-166, 174-175: BeautifulSoup or extract_content raises on the page
LinkRaises ==
    /\ CrawlOnly
    /\ pc = "returned" /\ f_caller = "link"
    /\ Truthy(f_ret)
    /\ served' = served \cup {[url |-> f_url, ret |-> f_ret, raised |-> TRUE]}
    /\ pc' = "loop"
    /\ Popped
    /\ UNCHANGED <<base_url, anchors, doc_links, todo, processed_urls, docs, retval,
                   f_caller, f_url, f_escaped, link_src, dup_anchor, events>>

\* lines 177-178: the loop is over
CrawlDone ==
    /\ CrawlOnly
    /\ pc = "loop"
    /\ todo = {}
    /\ retval' = docs
    /\ pc' = "done"
    /\ UNCHANGED <<base_url, anchors, doc_links, todo, processed_urls, docs,
                   f_caller, f_url, attempt, f_ret, f_log, f_sleeps, f_escaped,
                   link_src, dup_anchor, served, events>>

CrawlStart ==
    /\ pc = "start"
    /\ base_url \in BaseUrls
    /\ anchors = <<>>
    /\ doc_links = {}
    /\ todo = {}
    /\ processed_urls = {}
    /\ docs = <<>>
    /\ retval = None
    /\ f_caller = "seed"
    /\ f_url = ""
    /\ attempt = 0
    /\ f_ret = None
    /\ f_log = <<>>
    /\ f_sleeps = 0
    /\ f_escaped = FALSE
    /\ link_src = {}
    /\ dup_anchor = FALSE
    /\ served = {}
    /\ events = <<>>

\* no crawl job in this behaviour
CrawlIdle ==
    /\ pc = "idle"
    /\ base_url = ""
    /\ anchors = <<>>
    /\ doc_links = {}
    /\ todo = {}
    /\ processed_urls = {}
    /\ docs = <<>>
    /\ retval = None
    /\ f_caller = "seed"
    /\ f_url = ""
    /\ attempt = 0
    /\ f_ret = None
    /\ f_log = <<>>
    /\ f_sleeps = 0
    /\ f_escaped = FALSE
    /\ link_src = {}
    /\ dup_anchor = FALSE
    /\ served = {}
    /\ events = <<>>

CrawlStep ==
    \/ StartCrawl
    \/ GetOk
    \/ GetFails
    \/ GiveUp
    \/ SeedEmpty
    \/ SeedParsed
    \/ SeedRaises
    \/ EnterLoop
    \/ NextLink
    \/ LinkProcessed
    \/ LinkRaises
    \/ CrawlDone

-----------------------------------------------------------------------------
(* DocumentScraper.extract_content as a function of the page *)

\* the most paragraph, list-item and code elements of a page
MaxElems == 3

ElemTexts == {"Intro", "Step 1: do X", "step", "one two", "  ", "see\n2. run it"}

ExtractSoups ==
    {Soup(h1, title, page_title, <<" Setup ">>, elems, <<>>) :
        h1 \in {NoElem, Elem("  "), Elem(" Setup ")},
        title \in {NoElem, Elem("Docs")},
        page_title \in {NoElem, Elem("Guide")},
        elems \in SeqUpTo(ElemTexts, MaxElems)}

PageUrl == "https://segment.com/docs/guide"

ExtractStart ==
    /\ x_pc = "call"
    /\ x_soup \in ExtractSoups
    /\ x_doc = None

ExtractIdle ==
    /\ x_pc = "idle"
    /\ x_soup = None
    /\ x_doc = None

\* lines 77-127
Extract ==
    /\ ExtractOnly
    /\ x_pc = "call"
    /\ x_doc' = extract_content(x_soup, PageUrl)
    /\ x_pc' = "done"
    /\ UNCHANGED x_soup

-----------------------------------------------------------------------------
(* format_search_response *)

\* the decimal digits of a natural number, as str(n) gives them
RECURSIVE IntToStr(_)
IntToStr(n) ==
    IF n < 10 THEN Char("0123456789", n + 1)
    ELSE IntToStr(n \div 10) \o Char("0123456789", (n % 10) + 1)

ToUpper == [c \in {Char(LowerAlphabet, i) : i \in 1..26} |->
               Char(UpperAlphabet, CHOOSE i \in 1..26 : Char(LowerAlphabet, i) = c)]

UpperChar(c) == IF c \in DOMAIN ToUpper THEN ToUpper[c] ELSE c

\* str.capitalize()
Capitalize(s) == IF s = "" THEN "" ELSE UpperChar(Head(s)) \o Lower(Tail(s))

\* s[:n], list[:n]
Take(s, n) == SubSeq(s, 1, IF Len(s) < n THEN Len(s) ELSE n)

HowToTerms == <<"how", "how to", "how do i">>

\* lines 241-243 and 341
is_how_to(query) ==
    LET lowered == Lower(query) IN
    \E i \in 1..Len(HowToTerms) : Contains(HowToTerms[i], lowered)

\* a numbering that starts at 0, as enumerate does
FormatSteps_FromZero(steps) ==
    [i \in 1..Len(steps) |-> IntToStr(i - 1) \o ". " \o steps[i]]

\* line 363: f"{i+1}. {step}" for i, step in enumerate(steps)
FormatSteps(steps) ==
    [i \in 1..Len(steps) |-> IntToStr((i - 1) + 1) \o ". " \o steps[i]]

GuideSuggestions ==
    <<"View step-by-step guide", "See related examples", "Check prerequisites">>

DocumentationSuggestions ==
    <<"Read full documentation", "View related topics", "Check API reference">>

\* a hit: source is hit["_source"], score10 is ten times hit["_score"],
\* highlight is hit.get("highlight", {}).get("content"), None when absent
format_search_response(hit, query) ==
    LET source == hit.source
        content_preview ==
            IF hit.highlight.present
            THEN Join(" ... ", hit.highlight.content)
            ELSE Take(source.content, 300)
        how_to == is_how_to(query)
        response_type ==
            IF how_to \/ source.type = "guide" THEN "guide" ELSE "documentation"
        relevance == IF hit.score10 > 10 THEN "High" ELSE "Medium"
        suggestions ==
            IF response_type = "guide" THEN GuideSuggestions ELSE DocumentationSuggestions
        steps == source.steps
        formatted_steps == IF steps # <<>> /\ how_to THEN FormatSteps(steps) ELSE <<>>
    IN [title |-> source.title,
        snippet |-> [text |-> content_preview, type |-> response_type],
        steps |-> formatted_steps,
        link |-> source.url,
        score10 |-> hit.score10,
        metadata |-> [relevance |-> relevance,
                      documentType |-> Capitalize(response_type),
                      headers |-> Take(source.headers, 3)],
        suggestions |-> suggestions]

\* the most steps a stored document has
MaxSteps == 2

StepTexts == {"Step 1: add a source", "2. send data"}

Document(url, title, content, headers, steps) ==
    [url |-> url, title |-> title, content |-> content, headers |-> headers,
     steps |-> steps, type |-> IF steps # <<>> THEN "guide" ELSE "documentation"]

NoHighlight == [present |-> FALSE]
Highlight(frags) == [present |-> TRUE, content |-> frags]

FormatHits ==
    {[source |-> Document(PageUrl, "Setup", "Add a source then send data", <<"Setup">>, st),
      score10 |-> sc,
      highlight |-> hl] :
        st \in SeqUpTo(StepTexts, MaxSteps),
        sc \in {5, 10, 15},
        hl \in {NoHighlight, Highlight(<<"Add a <strong>source</strong>", "send data">>)}}

FormatQueries ==
    {"how to add a source", "HOW do I send data", "what is a source", "show my data"}

FormatStart ==
    /\ fm_pc = "call"
    /\ fm_hit \in FormatHits
    /\ fm_query \in FormatQueries
    /\ fm_out = None

FormatIdle ==
    /\ fm_pc = "idle"
    /\ fm_hit = None
    /\ fm_query = ""
    /\ fm_out = None

\* lines 330-379
Format ==
    /\ FormatOnly
    /\ fm_pc = "call"
    /\ fm_out' = format_search_response(fm_hit, fm_query)
    /\ fm_pc' = "done"
    /\ UNCHANGED <<fm_hit, fm_query>>

-----------------------------------------------------------------------------
(* The search engine, as the handlers use it *)

Vendors == {"segment", "mparticle", "lytics", "zeotap"}

IndexNames == {v \o "_docs" : v \in Vendors}

\* es.index(index=name, id=i, document=doc)
PutDocument(stored, i, doc) ==
    IF i + 1 <= Len(stored) THEN [stored EXCEPT ![i + 1] = doc] ELSE Append(stored, doc)

-----------------------------------------------------------------------------
(* POST /initialize/<cdp>: initialize_single_index with                      *)
(* ElasticsearchManager.setup_index and index_documents.  Every call of the  *)
(* search engine is a step of its own: a request of another thread may run   *)
(* between two of them.                                                      *)

\* the most Documents a crawl returns
MaxDocs == 2

DocUrls == {"https://segment.com/docs/p" \o IntToStr(k) : k \in 1..MaxDocs}

\* a crawled page of the vendor's site
CrawledDocument(url) ==
    extract_content(Soup(Elem("Sources"), NoElem, NoElem, <<"Sources">>,
                         <<"Track data from a source">>, <<>>), url)

\* what scrape_docs may return: Documents of distinct urls, in any order
CrawlResults ==
    {ds \in SeqUpTo({CrawledDocument(u) : u \in DocUrls}, MaxDocs) :
        \A a, b \in 1..Len(ds) : ds[a].url = ds[b].url => a = b}

\* the path parameters tried
InitializeCdps == {"segment", "Segment", "hubspot"}

InitResponse(status, body) == [status |-> status, body |-> body]

\* lines 443-462: the request arrives and its vendor is looked up
InitializeRequest ==
    /\ ServiceOnly
    /\ i_pc = "idle"
    /\ \E cdp \in InitializeCdps :
          /\ i_cdp' = cdp
          /\ IF cdp \notin Vendors
             THEN /\ i_resp' = InitResponse(400, [error |-> "Invalid CDP specified"])
                  /\ i_pc' = "idle"
             ELSE /\ i_resp' = None
                  /\ i_pc' = "setup_exists"
          /\ i_prev' = IF cdp \in Vendors THEN Len(es_docs[cdp \o "_docs"]) ELSE 0
    /\ i_docs' = <<>>
    /\ i_i' = 0
    /\ UNCHANGED <<es_exists, es_docs, q_pc, q_query, q_cdp, q_resp, q_es_calls,
                   q_seen, q_new>>

\* line 216
SetupExists ==
    /\ ServiceOnly
    /\ UNCHANGED i_prev
    /\ i_pc = "setup_exists"
    /\ i_pc' = IF es_exists[i_cdp \o "_docs"] THEN "setup_delete" ELSE "setup_create"
    /\ UNCHANGED <<es_exists, es_docs, i_cdp, i_docs, i_i, i_resp,
                   q_pc, q_query, q_cdp, q_resp, q_es_calls, q_seen, q_new>>

\* a setup_index that keeps an index it finds
SetupDelete_KeepIndex ==
    /\ ServiceOnly
    /\ UNCHANGED i_prev
    /\ i_pc = "setup_delete"
    /\ i_pc' = "scrape"
    /\ UNCHANGED <<es_exists, es_docs, i_cdp, i_docs, i_i, i_resp,
                   q_pc, q_query, q_cdp, q_resp, q_es_calls, q_seen, q_new>>

\* line 217
SetupDelete ==
    /\ ServiceOnly
    /\ UNCHANGED i_prev
    /\ i_pc = "setup_delete"
    /\ es_exists' = [es_exists EXCEPT ![i_cdp \o "_docs"] = FALSE]
    /\ es_docs' = [es_docs EXCEPT ![i_cdp \o "_docs"] = <<>>]
    /\ i_pc' = "setup_create"
    /\ UNCHANGED <<i_cdp, i_docs, i_i, i_resp,
                   q_pc, q_query, q_cdp, q_resp, q_es_calls, q_seen, q_new>>

\* line 220
SetupCreate ==
    /\ ServiceOnly
    /\ UNCHANGED i_prev
    /\ i_pc = "setup_create"
    /\ es_exists' = [es_exists EXCEPT ![i_cdp \o "_docs"] = TRUE]
    /\ es_docs' = [es_docs EXCEPT ![i_cdp \o "_docs"] = <<>>]
    /\ i_pc' = "scrape"
    /\ UNCHANGED <<i_cdp, i_docs, i_i, i_resp,
                   q_pc, q_query, q_cdp, q_resp, q_es_calls, q_seen, q_new>>

\* lines 466-467 and 479-492: the crawl runs; without documents the request ends
Scrape ==
    /\ ServiceOnly
    /\ UNCHANGED i_prev
    /\ i_pc = "scrape"
    /\ \E ds \in CrawlResults :
          /\ i_docs' = ds
          /\ IF ds # <<>>
             THEN /\ i_pc' = "index"
                  /\ i_resp' = i_resp
             ELSE /\ i_pc' = "idle"
                  /\ i_resp' = InitResponse(500, [error |-> "No documents found for " \o i_cdp])
    /\ i_i' = 0
    /\ UNCHANGED <<es_exists, es_docs, i_cdp,
                   q_pc, q_query, q_cdp, q_resp, q_es_calls, q_seen, q_new>>

\* lines 229-230: one turn of the loop of index_documents
IndexDocument ==
    /\ ServiceOnly
    /\ UNCHANGED i_prev
    /\ i_pc = "index"
    /\ i_i < Len(i_docs)
    /\ es_exists' = [es_exists EXCEPT ![i_cdp \o "_docs"] = TRUE]
    /\ es_docs' = [es_docs EXCEPT ![i_cdp \o "_docs"] = PutDocument(@, i_i, i_docs[i_i + 1])]
    /\ i_i' = i_i + 1
    /\ UNCHANGED <<i_pc, i_cdp, i_docs, i_resp,
                   q_pc, q_query, q_cdp, q_resp, q_es_calls, q_seen, q_new>>

\* lines 231 and 469-478: all documents are indexed
InitializeDone ==
    /\ ServiceOnly
    /\ UNCHANGED i_prev
    /\ i_pc = "index"
    /\ i_i >= Len(i_docs)
    /\ i_resp' = InitResponse(200, [cdp |-> i_cdp, document_count |-> Len(i_docs)])
    /\ i_pc' = "idle"
    /\ UNCHANGED <<es_exists, es_docs, i_cdp, i_docs, i_i,
                   q_pc, q_query, q_cdp, q_resp, q_es_calls, q_seen, q_new>>

\* lines 222-224, 232-234 and 494-505: a call of the search engine raises
InitializeEngineError ==
    /\ ServiceOnly
    /\ UNCHANGED i_prev
    /\ (i_pc \in {"setup_exists", "setup_delete", "setup_create"}
          \/ (i_pc = "index" /\ i_i < Len(i_docs)))
    /\ i_resp' = InitResponse(500, [error |-> "Failed to initialize " \o i_cdp])
    /\ i_pc' = "idle"
    /\ UNCHANGED <<es_exists, es_docs, i_cdp, i_docs, i_i,
                   q_pc, q_query, q_cdp, q_resp, q_es_calls, q_seen, q_new>>

-----------------------------------------------------------------------------
(* POST /query *)

VendorSuggestions ==
    [segment |-> <<"How to set up Segment tracking", "Creating a new source in Segment",
                   "Segment data integration guide">>,
     mparticle |-> <<"Setting up mParticle SDK", "Creating user profiles in mParticle",
                     "mParticle data mapping guide">>,
     lytics |-> <<"Building audiences in Lytics", "Lytics campaign setup guide",
                  "Lytics data collection setup">>,
     zeotap |-> <<"Zeotap data integration guide", "Setting up identity resolution",
                  "Creating segments in Zeotap">>]

get_alternative_suggestions(cdp) ==
    IF cdp \in Vendors THEN VendorSuggestions[cdp] ELSE <<>>

cdp_keywords ==
    <<"cdp", "data", "profile", "segment", "audience", "integration", "track",
      "analytics", "source", "destination">>

\* a keyword filter that lets every query through
IsOffTopic_Never(user_query) == FALSE

\* line 536
IsOffTopic(user_query) ==
    LET lowered == Lower(user_query) IN
    ~\E k \in 1..Len(cdp_keywords) : Contains(cdp_keywords[k], lowered)

\* the request bodies tried
QueryTexts == {"", "  ", "hello there", " How to track data "}
QueryCdps == {"Segment", "lytics", "hubspot", ""}

\* the hits the engine may return for an index with these documents: any of
\* them, ranked in any order
Rankings(stored) ==
    {hs \in SeqUpTo({stored[k] : k \in 1..Len(stored)}, Len(stored)) :
        \A a, b \in 1..Len(hs) : hs[a] = hs[b] => a = b}

Hit(doc) == [source |-> doc, score10 |-> 15, highlight |-> NoHighlight]

\* lines 512-565: the request arrives and is answered without the search
\* engine, or goes on to it
QueryRequest ==
    /\ ServiceOnly
    /\ UNCHANGED i_prev
    /\ q_pc = "idle"
    /\ \E text \in QueryTexts, sent_cdp \in QueryCdps :
          LET user_query == Strip(text)
              cdp == Lower(sent_cdp)
          IN /\ q_query' = text
             /\ q_cdp' = sent_cdp
             /\ IF user_query = ""
                THEN /\ q_resp' = [error |-> "Please provide a query",
                                   suggestions |-> get_alternative_suggestions(cdp)]
                     /\ q_pc' = "idle"
                ELSE IF IsOffTopic(user_query)
                THEN /\ q_resp' =
                            [response |->
                                [message |-> "I can only answer questions related to CDP functionality.",
                                 suggestions |-> <<"Try asking about data integration",
                                                   "Ask about user profiles or segments",
                                                   "Query about CDP-specific features">>,
                                 examples |-> get_alternative_suggestions(cdp)]]
                     /\ q_pc' = "idle"
                ELSE IF cdp \notin Vendors
                THEN /\ q_resp' = [error |-> "Invalid CDP specified"]
                     /\ q_pc' = "idle"
                ELSE /\ q_resp' = None
                     /\ q_pc' = "exists"
    /\ q_es_calls' = 0
    /\ q_seen' = <<>>
    /\ q_new' = <<>>
    /\ UNCHANGED <<es_exists, es_docs, i_pc, i_cdp, i_docs, i_i, i_resp>>

\* the index name of line 558
QueryIndex == Lower(q_cdp) \o "_docs"

\* lines 567-573
QueryExists ==
    /\ ServiceOnly
    /\ UNCHANGED i_prev
    /\ q_pc = "exists"
    /\ q_es_calls' = q_es_calls + 1
    /\ IF ~es_exists[QueryIndex]
       THEN /\ q_resp' = [error |-> "Documentation for " \o Lower(q_cdp) \o " is not yet indexed"]
            /\ q_pc' = "idle"
       ELSE /\ q_resp' = q_resp
            /\ q_pc' = "count"
    /\ UNCHANGED <<es_exists, es_docs, i_pc, i_cdp, i_docs, i_i, i_resp,
                   q_query, q_cdp, q_seen, q_new>>

\* lines 575-582; counting an index that is gone raises (lines 611-622)
QueryCount ==
    /\ ServiceOnly
    /\ UNCHANGED i_prev
    /\ q_pc = "count"
    /\ q_es_calls' = q_es_calls + 1
    /\ IF ~es_exists[QueryIndex]
       THEN /\ q_resp' = [error |-> "An error occurred while processing your request"]
            /\ q_pc' = "idle"
       ELSE IF Len(es_docs[QueryIndex]) = 0
       THEN /\ q_resp' = [error |-> "No documentation found for " \o Lower(q_cdp)]
            /\ q_pc' = "idle"
       ELSE /\ q_resp' = q_resp
            /\ q_pc' = "search"
    /\ UNCHANGED <<es_exists, es_docs, i_pc, i_cdp, i_docs, i_i, i_resp,
                   q_query, q_cdp, q_seen, q_new>>

\* lines 584-610; searching an index that is gone raises (lines 611-622)
QuerySearch ==
    /\ ServiceOnly
    /\ UNCHANGED i_prev
    /\ q_pc = "search"
    /\ q_es_calls' = q_es_calls + 1
    /\ IF ~es_exists[QueryIndex]
       THEN /\ q_resp' = [error |-> "An error occurred while processing your request"]
            /\ UNCHANGED <<q_seen, q_new>>
       ELSE /\ q_seen' = es_docs[QueryIndex]
            /\ q_new' = IF i_pc = "index" /\ i_cdp \o "_docs" = QueryIndex
                        THEN i_docs ELSE <<>>
            /\ \E hits \in Rankings(es_docs[QueryIndex]) :
                  IF hits # <<>>
                  THEN LET formatted_response ==
                               format_search_response(Hit(hits[1]), Strip(q_query))
                           related_titles ==
                               [k \in 1..(Len(Take(hits, 4)) - 1) |-> hits[k + 1].title]
                       IN q_resp' =
                            [response |-> formatted_response,
                             related_topics |-> IF Len(hits) > 1 THEN related_titles ELSE <<>>]
                  ELSE q_resp' =
                            [response |->
                                [message |-> "I couldn't find specific information about that in the "
                                                \o Lower(q_cdp) \o " documentation.",
                                 suggestions |-> get_alternative_suggestions(Lower(q_cdp))]]
    /\ q_pc' = "idle"
    /\ UNCHANGED <<es_exists, es_docs, i_pc, i_cdp, i_docs, i_i, i_resp, q_query, q_cdp>>

\* lines 611-622: a call of the search engine raises
QueryEngineError ==
    /\ ServiceOnly
    /\ UNCHANGED i_prev
    /\ q_pc \in {"exists", "count", "search"}
    /\ q_es_calls' = q_es_calls + 1
    /\ q_resp' = [error |-> "An error occurred while processing your request"]
    /\ q_pc' = "idle"
    /\ UNCHANGED <<es_exists, es_docs, i_pc, i_cdp, i_docs, i_i, i_resp,
                   q_query, q_cdp, q_seen, q_new>>

ServiceStart ==
    /\ es_exists = [n \in IndexNames |-> FALSE]
    /\ es_docs = [n \in IndexNames |-> <<>>]
    /\ i_pc = "idle"
    /\ i_cdp = ""
    /\ i_docs = <<>>
    /\ i_i = 0
    /\ i_resp = None
    /\ i_prev = 0
    /\ q_pc = "idle"
    /\ q_query = ""
    /\ q_cdp = ""
    /\ q_resp = None
    /\ q_es_calls = 0
    /\ q_seen = <<>>
    /\ q_new = <<>>

\* no request in this behaviour
ServiceIdle == ServiceStart

ServiceStep ==
    \/ InitializeRequest
    \/ SetupExists
    \/ SetupDelete
    \/ SetupCreate
    \/ Scrape
    \/ IndexDocument
    \/ InitializeDone
    \/ InitializeEngineError
    \/ QueryRequest
    \/ QueryExists
    \/ QueryCount
    \/ QuerySearch
    \/ QueryEngineError

-----------------------------------------------------------------------------
(* Specifications: one per part of the program, the other parts at rest *)

CrawlInit == CrawlStart /\ ExtractIdle /\ FormatIdle /\ ServiceIdle

CrawlNext == CrawlStep

SpecCrawl == CrawlInit /\ [][CrawlNext]_vars

ExtractInit == CrawlIdle /\ ExtractStart /\ FormatIdle /\ ServiceIdle

ExtractNext == Extract

SpecExtract == ExtractInit /\ [][ExtractNext]_vars

FormatInit == CrawlIdle /\ ExtractIdle /\ FormatStart /\ ServiceIdle

FormatNext == Format

SpecFormat == FormatInit /\ [][FormatNext]_vars

ServiceInit == CrawlIdle /\ ExtractIdle /\ FormatIdle /\ ServiceStart

ServiceNext == ServiceStep

SpecService == ServiceInit /\ [][ServiceNext]_vars

-----------------------------------------------------------------------------
(* Properties of the crawl job *)

\* C2: get_page_content issues at most max_retries GETs, stops at the first
\* one that succeeds and returns its body, returns None exactly when every
\* one of the max_retries attempts failed, and lets no exception escape.
C2_FetchRetriesBounded ==
    /\ Len(f_log) <= max_retries
    /\ \A i \in 1..(Len(f_log) - 1) : f_log[i] = "error"
    /\ ~f_escaped
    /\ pc = "returned" =>
          /\ (f_ret.kind = "bytes") <=> (f_log # <<>> /\ f_log[Len(f_log)] = "ok")
          /\ (f_ret = None) <=>
                (Len(f_log) = max_retries /\ \A i \in 1..Len(f_log) : f_log[i] = "error")
          /\ f_sleeps = Len(SelectSeq(f_log, LAMBDA o : o = "error"))
                          - (IF f_ret = None THEN 1 ELSE 0)

\* every attempt failed, with a retry sleep after each but the last
C2_Witness ==
    /\ pc = "returned"
    /\ f_ret = None
    /\ f_log = <<"error", "error", "error">>
    /\ f_sleeps = 2

\* the link fetches of the job, in order
FetchedUrls == [i \in 1..Len(SelectSeq(events, LAMBDA ev : ev.e = "fetch")) |->
                   SelectSeq(events, LAMBDA ev : ev.e = "fetch")[i].url]

GoodLink(u) ==
    \E sv \in served :
        /\ sv.url = u
        /\ ~sv.raised
        /\ sv.ret.kind = "bytes"
        /\ ~sv.ret.empty
        /\ extract_content(sv.ret.soup, u).content # ""

DocsFor(u) == SelectSeq(retval, LAMBDA d : d.url = u)

\* C4: the job returns exactly one Document for each discovered link that was
\* fetched and has non-empty content, none for any other link; a link that
\* fails or raises does not keep the others from being handled.
C4_OneDocumentPerGoodLink ==
    pc = "done" =>
        /\ \A u \in doc_links : Len(DocsFor(u)) = IF GoodLink(u) THEN 1 ELSE 0
        /\ \A i \in 1..Len(retval) : retval[i].url \in doc_links /\ retval[i].content # ""
        /\ {sv.url : sv \in served} = doc_links

\* three links, one of them failing on all retries, two Documents
C4_Witness ==
    /\ pc = "done"
    /\ Cardinality(doc_links) = 3
    /\ Cardinality({sv \in served : sv.ret = None}) = 1
    /\ Len(retval) = 2

\* C5: no Document of the result has the seed's url.
C5_SeedNeverADocument ==
    pc = "done" => \A i \in 1..Len(retval) : retval[i].url # base_url

BadScheme(h) ==
    \/ StartsWith(h, "#")
    \/ StartsWith(h, "javascript:")
    \/ StartsWith(h, "mailto:")
    \/ StartsWith(h, "tel:")

\* C9: every discovered link has the seed's url as a prefix, none comes from a
\* fragment, script, mail or telephone href, and each resolved url is in the
\* set once, however many anchors resolve to it.
C9_LinksInDomainAndFiltered ==
    pc = "discovered" =>
        /\ \A u \in doc_links : SubSeq(u, 1, Len(base_url)) = base_url
        /\ \A p \in link_src : ~BadScheme(p[1])
        /\ \A i \in 1..Len(anchors) : BadScheme(anchors[i].href) =>
              \A p \in link_src : p[1] # anchors[i].href
        /\ doc_links = {p[2] : p \in link_src}
        /\ Cardinality(doc_links) <= Cardinality(link_src)

\* a seed page with a skipped href and two anchors that resolve to one url
C9_Witness ==
    /\ pc = "discovered"
    /\ \E i \in 1..Len(anchors) : BadScheme(anchors[i].href)
    /\ dup_anchor
    /\ Cardinality(doc_links) = 1

\* C10: after every link of the job, whatever its outcome, the politeness
\* delay is slept before the next link is fetched.
C10_DelayBetweenFetches ==
    \A i \in 1..(Len(events) - 1) :
        events[i].e = "fetch" => events[i + 1].e = "delay"

-----------------------------------------------------------------------------
(* Properties of extract_content and format_search_response *)

\* a line of the page text that the step rule accepts
QualifyingLine(line) ==
    LET t == Strip(line) IN
        /\ Len(t) > 5
        /\ \/ SubSeq(Lower(t), 1, 5) = "step "
           \/ SubSeq(t, 1, 2) \in {"1.", "2.", "3."}

PageHasStepLine(soup) ==
    \E i \in 1..Len(soup.elems) :
        LET lines == SplitOn(soup.elems[i], "\n") IN
        \E k \in 1..Len(lines) : QualifyingLine(lines[k])

\* C7: an extracted page is a guide if one of the lines of its collected
\* paragraph, list-item and code elements qualifies as a step, and is
\* documentation if none does.
C7_GuideIffStepLine ==
    x_pc = "done" => ((x_doc.type = "guide") <=> PageHasStepLine(x_soup))

\* the trimmed texts of the title candidates that are present, in the order
\* h1, title, page-title
CandidateTexts(soup) ==
    LET cands == <<soup.h1, soup.title, soup.page_title>>
        there == SelectSeq(cands, LAMBDA c : c.present)
    IN [k \in 1..Len(there) |-> Strip(there[k].text)]

\* C11: the title is the trimmed text of the first of h1, title and page-title
\* whose trimmed text is not empty, an empty earlier candidate being passed
\* over; it is "Untitled Document" only when no candidate has text.
C11_TitleFirstNonEmptyCandidate ==
    x_pc = "done" =>
        LET texts == SelectSeq(CandidateTexts(x_soup), LAMBDA t : t # "")
        IN x_doc.title = IF texts # <<>> THEN texts[1] ELSE "Untitled Document"

\* C8: the formatted steps are non-empty only for a document with stored steps
\* and a query with how_to intent; then there are as many as stored, the i-th
\* being "{i}. {stored step i}"; otherwise the list is empty.
C8_StepsOnlyForHowTo ==
    fm_pc = "done" =>
        LET stored == fm_hit.source.steps
            intent == \E i \in 1..(Len(fm_query) - 2) :
                          Lower(SubSeq(fm_query, i, i + 2)) = "how"
        IN IF stored # <<>> /\ intent
           THEN /\ Len(fm_out.steps) = Len(stored)
                /\ \A i \in 1..Len(stored) :
                      fm_out.steps[i] = Char("123456789", i) \o ". " \o stored[i]
           ELSE fm_out.steps = <<>>

\* two stored steps and a how-to query: two numbered steps
C8_Witness ==
    /\ fm_pc = "done"
    /\ fm_query = "how to add a source"
    /\ fm_out.steps = <<"1. Step 1: add a source", "2. 2. send data">>

-----------------------------------------------------------------------------
(* Properties of the handlers *)

Elements(seq) == {seq[k] : k \in 1..Len(seq)}

\* C1: a query that runs concurrently with the initialization of its vendor
\* never searches an index that holds some, but not all, of the documents the
\* initialization is indexing.
C1_ReinitializationAtomic ==
    ~(/\ q_seen # <<>>
      /\ Elements(q_seen) \subseteq Elements(q_new)
      /\ Elements(q_seen) # Elements(q_new))

DomainKeywords ==
    {"cdp", "data", "profile", "segment", "audience", "integration", "track",
     "analytics", "source", "destination"}

InitializeCompleted ==
    /\ i_pc = "idle"
    /\ i_resp # None
    /\ \/ i_resp.status = 200
       \/ i_resp.body.error = "No documents found for " \o i_cdp

\* C12: once an initialize request has completed without an error of the
\* search engine, and no other is running, the vendor's index exists and holds
\* exactly the Documents its crawl returned, none of an earlier initialization;
\* after an empty crawl the index exists and is empty, and a query that then
\* reaches the count is answered "No documentation found".
C12_IndexHoldsLastCrawl ==
    /\ [](InitializeCompleted =>
            /\ es_exists[i_cdp \o "_docs"]
            /\ es_docs[i_cdp \o "_docs"] = i_docs)
    /\ [][(/\ InitializeCompleted
           /\ i_docs = <<>>
           /\ QueryIndex = i_cdp \o "_docs"
           /\ QueryCount)
          => q_resp' = [error |-> "No documentation found for " \o i_cdp]]_vars

\* an index that held two Documents is initialized again with an empty crawl,
\* and a query for it is answered from the count
C12_Witness ==
    /\ InitializeCompleted
    /\ i_prev = 2
    /\ i_docs = <<>>
    /\ es_docs[i_cdp \o "_docs"] = <<>>
    /\ q_pc = "idle"
    /\ q_resp = [error |-> "No documentation found for segment"]

=============================================================================
